---------------------------- MODULE Spec2Model ----------------------------
(***************************************************************************)
(* A model of clintjedwards/avail: a cron-style time frame expression is   *)
(* parsed by New into six Fields (sets of integers) and Able tests whether *)
(* a time lies inside them.                                                *)
(*                                                                         *)
(* Go strings are sequences of one-character strings, so that the regular  *)
(* expressions, strings.Split, strconv.Atoi and the %d verb are computed   *)
(* and not assumed.  An error is the format string of its fmt.Errorf call  *)
(* chain, the field kind it names and the rendered arguments.              *)
(***************************************************************************)
EXTENDS Integers, Sequences, FiniteSets, TLC

VARIABLES
    pc,          \* "start", "built" (New returned), "rebuilt", "asked" (Able returned), "field"
    given,       \* the expression handed to New
    timeframe,   \* the Timeframe New returned
    err,         \* the error New returned
    again,       \* what a second New(given) returned: [timeframe, err]
    now,         \* the argument of Able
    able,        \* what Able returned
    fKind,       \* the arguments of a direct newField call
    fTerm,
    fResult      \* what newField returned: [field, err]

vars == <<pc, given, timeframe, err, again, now, able, fKind, fTerm, fResult>>

----------------------------------------------------------------------------
(* Characters and numbers *)

Digits == {"0", "1", "2", "3", "4", "5", "6", "7", "8", "9"}

DigitChars == <<"0", "1", "2", "3", "4", "5", "6", "7", "8", "9">>

DigitVal(c) == (CHOOSE i \in 1..10 : DigitChars[i] = c) - 1

\* \d+ and [0-9]+ : a non-empty run of ASCII digits
IsDigits(s) == Len(s) > 0 /\ \A i \in 1..Len(s) : s[i] \in Digits

Positions(s, c) == {i \in 1..Len(s) : s[i] = c}

MinOf(S) == CHOOSE x \in S : \A y \in S : x <= y

\* strings.Split(s, sep) for a one-character separator
RECURSIVE Split(_, _)
Split(s, sep) ==
    IF Positions(s, sep) = {} THEN <<s>>
    ELSE LET i == MinOf(Positions(s, sep))
         IN  <<SubSeq(s, 1, i - 1)>> \o Split(SubSeq(s, i + 1, Len(s)), sep)

RECURSIVE StripZeros(_)
StripZeros(d) == IF Len(d) > 1 /\ d[1] = "0" THEN StripZeros(Tail(d)) ELSE d

RECURSIVE DigitsToInt(_)
DigitsToInt(d) ==
    IF Len(d) = 0 THEN 0
    ELSE 10 * DigitsToInt(SubSeq(d, 1, Len(d) - 1)) + DigitVal(d[Len(d)])

\* the largest int (64 bits), and the magnitude of the smallest, as digits
MaxIntDigits == <<"9","2","2","3","3","7","2","0","3","6","8","5","4","7","7","5","8","0","7">>

MinIntDigits == <<"9","2","2","3","3","7","2","0","3","6","8","5","4","7","7","5","8","0","8">>

\* a > b for digit strings of the same length
DigitsGreater(a, b) ==
    \E i \in 1..Len(a) :
        /\ DigitVal(a[i]) > DigitVal(b[i])
        /\ \A j \in 1..(i - 1) : a[j] = b[j]

OutOfRange(digits, neg) ==
    LET d   == StripZeros(digits)
        lim == IF neg THEN MinIntDigits ELSE MaxIntDigits
    IN  \/ Len(d) > Len(lim)
        \/ Len(d) = Len(lim) /\ DigitsGreater(d, lim)

\* strconv.Atoi: an optional sign, then digits; ErrSyntax on anything else,
\* ErrRange when the value does not fit an int.  The callers ignore the
\* value of a failed conversion.  (The literals of the modelled inputs have
\* at most nine significant digits or exceed the int range.)
Atoi(s) ==
    LET signed == Len(s) > 0 /\ s[1] \in {"+", "-"}
        body   == IF signed THEN Tail(s) ELSE s
        neg    == signed /\ s[1] = "-"
    IN  IF ~IsDigits(body) THEN [err |-> "ErrSyntax", val |-> 0]
        ELSE IF OutOfRange(body, neg) THEN [err |-> "ErrRange", val |-> 0]
        ELSE [err |-> "nil",
              val |-> IF neg THEN 0 - DigitsToInt(StripZeros(body))
                             ELSE DigitsToInt(StripZeros(body))]

\* the %d verb: the decimal rendering of an int
RECURSIVE NatToDigits(_)
NatToDigits(n) ==
    IF n < 10 THEN <<DigitChars[n + 1]>>
    ELSE NatToDigits(n \div 10) \o <<DigitChars[(n % 10) + 1]>>

Itoa(n) == IF n < 0 THEN <<"-">> \o NatToDigits(0 - n) ELSE NatToDigits(n)

----------------------------------------------------------------------------
(* identifyTerm.go *)

\* ^[0-9]+-[0-9]+$
spanRegex(term) ==
    \E i \in Positions(term, "-") :
        /\ IsDigits(SubSeq(term, 1, i - 1))
        /\ IsDigits(SubSeq(term, i + 1, Len(term)))

\* ^\*$
wildcardRegex(term) == term = <<"*">>

\* ,+  (not anchored)
listRegex(term) == Positions(term, ",") # {}

\* a valueRegex that lost its anchors: [0-9]+
valueRegexUnanchored(term) == \E i \in 1..Len(term) : term[i] \in Digits

\* ^([0-9]+)$
valueRegex(term) == IsDigits(term)

termRegexToType ==
    [spanRegex |-> "span", wildcardRegex |-> "wildcard", listRegex |-> "list", valueRegex |-> "value"]

RegexNames == {"spanRegex", "wildcardRegex", "listRegex", "valueRegex"}

MatchString(regex, term) ==
    CASE regex = "spanRegex"     -> spanRegex(term)
      [] regex = "wildcardRegex" -> wildcardRegex(term)
      [] regex = "listRegex"     -> listRegex(term)
      [] regex = "valueRegex"    -> valueRegex(term)

\* the orders in which a range over the map termRegexToType can visit its keys
Orders == {o \in [1..4 -> RegexNames] : \A i, j \in 1..4 : o[i] = o[j] => i = j}

\* the first regex, in the order of this iteration, that matches decides
identifyTermKind(term, order) ==
    LET hits == {i \in 1..4 : MatchString(order[i], term)}
    IN  IF hits = {} THEN "unknown" ELSE termRegexToType[order[MinOf(hits)]]


IdentifyOutcomes(term) == {identifyTermKind(term, o) : o \in Orders}

----------------------------------------------------------------------------
(* Errors *)

nil == [formats |-> <<>>, kind |-> "", args |-> <<>>]

\* fmt.Errorf(format, ...): kind is the fieldType among the arguments ("" if
\* none), args the other arguments as rendered
Errorf(format, kind, args) == [formats |-> <<format>>, kind |-> kind, args |-> args]

\* fmt.Errorf("could not parse %s: %w", f.Kind, err)
WrapKind(kind, e) ==
    [formats |-> <<"could not parse %s: %w">> \o e.formats, kind |-> kind, args |-> e.args]

\* fmt.Errorf("could not parse value %s: %v", shown, err) for the *NumError
\* of a failed Atoi(input), which renders as
\* strconv.Atoi: parsing "<input>": <invalid syntax | value out of range>
ValueErrorf(shown, input, atoiErr) ==
    [formats |-> <<"could not parse value %s: %v",
                   IF atoiErr = "ErrRange"
                   THEN "strconv.Atoi: parsing %q: value out of range"
                   ELSE "strconv.Atoi: parsing %q: invalid syntax">>,
     kind |-> "", args |-> <<shown, input>>]

LessThanMin(value, min) ==
    Errorf("value(%d) cannot be less than min(%d)", "", <<Itoa(value), Itoa(min)>>)

MoreThanMax(value, max) ==
    Errorf("value(%d) cannot be more than max(%d)", "", <<Itoa(value), Itoa(max)>>)

----------------------------------------------------------------------------
(* Field *)

\* Field{}: a nil map has no members
ZeroField == [Kind |-> "", Term |-> <<>>, Min |-> 0, Max |-> 0, Values |-> {}]

\* a generateSequentialSet that stops one short: i < end
generateSequentialSetShort(start, end) == start..(end - 1)

generateSequentialSet(start, end) == start..end

parseWildcardField(f) == generateSequentialSet(f.Min, f.Max)

\* a parseSpanField that tests the bounds before the order of the two values
parseSpanFieldBoundsFirst(f) ==
    LET values == Split(f.Term, "-")
        min    == Atoi(values[1])
        max    == Atoi(values[2])
    IN  IF min.err # "nil" THEN [values |-> {}, err |-> ValueErrorf(values[1], values[1], min.err)]
        ELSE IF max.err # "nil" THEN [values |-> {}, err |-> ValueErrorf(values[2], values[2], max.err)]
        ELSE IF min.val < f.Min THEN [values |-> {}, err |-> LessThanMin(min.val, f.Min)]
        ELSE IF max.val > f.Max THEN [values |-> {}, err |-> MoreThanMax(max.val, f.Max)]
        ELSE IF min.val >= max.val
             THEN [values |-> {},
                   err |-> Errorf("first value(%d) cannot be greater/equal to second(%d)", "",
                                  <<Itoa(min.val), Itoa(max.val)>>)]
        ELSE [values |-> generateSequentialSet(min.val, max.val), err |-> nil]

parseSpanField(f) ==
    LET values == Split(f.Term, "-")
        min    == Atoi(values[1])
        max    == Atoi(values[2])
    IN  IF min.err # "nil" THEN [values |-> {}, err |-> ValueErrorf(values[1], values[1], min.err)]
        ELSE IF max.err # "nil" THEN [values |-> {}, err |-> ValueErrorf(values[2], values[2], max.err)]
        ELSE IF min.val >= max.val
             THEN [values |-> {},
                   err |-> Errorf("first value(%d) cannot be greater/equal to second(%d)", "",
                                  <<Itoa(min.val), Itoa(max.val)>>)]
        ELSE IF min.val < f.Min THEN [values |-> {}, err |-> LessThanMin(min.val, f.Min)]
        ELSE IF max.val > f.Max THEN [values |-> {}, err |-> MoreThanMax(max.val, f.Max)]
        ELSE [values |-> generateSequentialSet(min.val, max.val), err |-> nil]

\* a parseValueField whose upper test is off by one: value > f.Max + 1
parseValueFieldLoose(f) ==
    LET value == Atoi(f.Term)
    IN  IF value.err # "nil" THEN [values |-> {}, err |-> ValueErrorf(f.Term, f.Term, value.err)]
        ELSE IF value.val < f.Min THEN [values |-> {}, err |-> LessThanMin(value.val, f.Min)]
        ELSE IF value.val > f.Max + 1 THEN [values |-> {}, err |-> MoreThanMax(value.val, f.Max)]
        ELSE [values |-> {value.val}, err |-> nil]

parseValueField(f) ==
    LET value == Atoi(f.Term)
    IN  IF value.err # "nil" THEN [values |-> {}, err |-> ValueErrorf(f.Term, f.Term, value.err)]
        ELSE IF value.val < f.Min THEN [values |-> {}, err |-> LessThanMin(value.val, f.Min)]
        ELSE IF value.val > f.Max THEN [values |-> {}, err |-> MoreThanMax(value.val, f.Max)]
        ELSE [values |-> {value.val}, err |-> nil]

\* the loop of parseListField from item i on, with the set built so far
RECURSIVE parseListItems(_, _, _, _)
parseListItems(f, values, i, set) ==
    IF i > Len(values) THEN [values |-> set, err |-> nil]
    ELSE LET value == Atoi(values[i])
         IN  IF value.err # "nil"
             THEN [values |-> {}, err |-> ValueErrorf(f.Term, values[i], value.err)]
             ELSE IF value.val < f.Min THEN [values |-> {}, err |-> LessThanMin(value.val, f.Min)]
             ELSE IF value.val > f.Max THEN [values |-> {}, err |-> MoreThanMax(value.val, f.Max)]
             ELSE parseListItems(f, values, i + 1, set \cup {value.val})

parseListField(f) == parseListItems(f, Split(f.Term, ","), 1, {})

\* Field.parse: the field with its Values set, and the error
parse(f, order) ==
    LET kind == identifyTermKind(f.Term, order)
        done(result) ==
            IF result.err # nil THEN [f |-> f, err |-> WrapKind(f.Kind, result.err)]
            ELSE [f |-> [f EXCEPT !.Values = result.values], err |-> nil]
    IN  CASE kind = "wildcard" -> [f |-> [f EXCEPT !.Values = parseWildcardField(f)], err |-> nil]
          [] kind = "span"     -> done(parseSpanField(f))
          [] kind = "value"    -> done(parseValueField(f))
          [] kind = "list"     -> done(parseListField(f))
          [] OTHER             ->
                [f |-> f, err |-> Errorf("could not parse field: %s; expression: %s", f.Kind, <<f.Term>>)]

newField(kind, term, min, max, order) ==
    LET f == [Kind |-> kind, Term |-> term, Min |-> min, Max |-> max, Values |-> {}]
        r == parse(f, order)
    IN  IF r.err # nil THEN [field |-> ZeroField, err |-> r.err]
        ELSE [field |-> r.f, err |-> nil]

----------------------------------------------------------------------------
(* avail.go *)

\* the order of the six terms of an expression, and of the checks of Able
fieldTypes == <<"minute", "hour", "day", "month", "weekday", "year">>

\* the bounds New hands to newField
Bounds ==
    [minute  |-> [min |-> 0,    max |-> 59],
     hour    |-> [min |-> 0,    max |-> 23],
     day     |-> [min |-> 1,    max |-> 31],
     month   |-> [min |-> 1,    max |-> 12],
     weekday |-> [min |-> 0,    max |-> 6],
     year    |-> [min |-> 1970, max |-> 2100]]

\* (\d+,)+\d+ : one comma or more, and digits before, between and after them
CronList(s) ==
    /\ Positions(s, ",") # {}
    /\ \A i \in 1..Len(Split(s, ",")) : IsDigits(Split(s, ",")[i])

\* (\d+,)+\d+|(\d+(-)\d+)|\d+|\*
CronTerm(s) == CronList(s) \/ spanRegex(s) \/ IsDigits(s) \/ s = <<"*">>

\* one repetition: a term and an optional space
CronGroup(s) ==
    \/ CronTerm(s)
    \/ Len(s) >= 2 /\ s[Len(s)] = " " /\ CronTerm(SubSeq(s, 1, Len(s) - 1))

\* the lengths of the prefixes of s that n more repetitions can end at,
\* starting from the prefix lengths in ends
RECURSIVE GroupEnds(_, _, _)
GroupEnds(s, ends, n) ==
    IF n = 0 \/ ends = {} THEN ends
    ELSE GroupEnds(s,
                   {q \in 1..Len(s) : \E p \in ends : p < q /\ CronGroup(SubSeq(s, p + 1, q))},
                   n - 1)

\* ^((((\d+,)+\d+|(\d+(-)\d+)|\d+|\*) ?){6})$
cronExpressionRegex(s) == Len(s) \in GroupEnds(s, {0}, 6)

ZeroParsedExpression ==
    [Minutes |-> ZeroField, Hours |-> ZeroField, Days |-> ZeroField,
     Months |-> ZeroField, Weekdays |-> ZeroField, Years |-> ZeroField]

\* Timeframe{}
ZeroTimeframe == [Expression |-> <<>>, ParsedExpression |-> ZeroParsedExpression]

RECURSIVE NewFields(_, _, _, _, _)

\* an error check that returns the fields built before the failing one
AfterFieldKeepsBuilt(expression, terms, orders, i, fields, r) ==
    IF r.err # nil
    THEN LET kept == fields \o [j \in 1..(7 - i) |-> ZeroField]
         IN  [timeframe |->
                [Expression |-> expression,
                 ParsedExpression |->
                    [Minutes |-> kept[1], Hours |-> kept[2], Days |-> kept[3],
                     Months |-> kept[4], Weekdays |-> kept[5], Years |-> kept[6]]],
              err |-> r.err]
    ELSE NewFields(expression, terms, orders, i + 1, Append(fields, r.field))

\* the check after each newField call of New: r is what the i-th call
\* returned and fields the fields of the calls before it
AfterField(expression, terms, orders, i, fields, r) ==
    IF r.err # nil THEN [timeframe |-> ZeroTimeframe, err |-> r.err]
    ELSE NewFields(expression, terms, orders, i + 1, Append(fields, r.field))

\* the six newField calls of New from the i-th on, each kind with its
\* bounds, and the Timeframe returned after the last
NewFields(expression, terms, orders, i, fields) ==
    IF i > 6
    THEN [timeframe |->
            [Expression |-> expression,
             ParsedExpression |->
                [Minutes |-> fields[1], Hours |-> fields[2], Days |-> fields[3],
                 Months |-> fields[4], Weekdays |-> fields[5], Years |-> fields[6]]],
          err |-> nil]
    ELSE AfterField(expression, terms, orders, i, fields,
                    newField(fieldTypes[i], terms[i], Bounds[fieldTypes[i]].min,
                             Bounds[fieldTypes[i]].max, orders[i]))

\* the term count check of New
NewTerms(expression, terms, orders) ==
    IF Len(terms) # 6
    THEN [timeframe |-> ZeroTimeframe,
          err |-> Errorf("could not parse cron expression: %s; must have 6 terms", "", <<expression>>)]
    ELSE NewFields(expression, terms, orders, 1, <<>>)

\* New; orders[i] is the order in which the i-th newField call's
\* identifyTermKind iterates termRegexToType
New(expression, orders) ==
    IF ~cronExpressionRegex(expression)
    THEN [timeframe |-> ZeroTimeframe,
          err |-> Errorf("could not parse cron expression: %s; misformatted expression", "", <<expression>>)]
    ELSE NewTerms(expression, Split(expression, " "), orders)

\* time.Weekday of a date of the proleptic Gregorian calendar, Sunday = 0
MonthOffsets == <<0, 3, 2, 5, 0, 3, 5, 1, 4, 6, 2, 4>>

Weekday(t) ==
    LET y == IF t.month < 3 THEN t.year - 1 ELSE t.year
    IN  (y + (y \div 4) - (y \div 100) + (y \div 400) + MonthOffsets[t.month] + t.day) % 7

\* one case of the switch in Able: is the component of the time in the set
HasComponent(a, field, t) ==
    CASE field = "minute"  -> t.minute \in a.ParsedExpression.Minutes.Values
      [] field = "hour"    -> t.hour \in a.ParsedExpression.Hours.Values
      [] field = "day"     -> t.day \in a.ParsedExpression.Days.Values
      [] field = "month"   -> t.month \in a.ParsedExpression.Months.Values
      [] field = "weekday" -> Weekday(t) \in a.ParsedExpression.Weekdays.Values
      [] field = "year"    -> t.year \in a.ParsedExpression.Years.Values

\* the loop of Able from the i-th field type on: false at the first miss
RECURSIVE AbleFrom(_, _, _)
AbleFrom(a, t, i) ==
    IF i > Len(fieldTypes) THEN TRUE
    ELSE IF ~HasComponent(a, fieldTypes[i], t) THEN FALSE
    ELSE AbleFrom(a, t, i + 1)

\* an Able whose loop forgets the last field type
AbleSkipsYear(a, t) ==
    \A i \in 1..5 : HasComponent(a, fieldTypes[i], t)

Able(a, t) == AbleFrom(a, t, 1)

----------------------------------------------------------------------------
(* Inputs *)

MaxTermLen == 3

MaxExprLen == 12

TermAlphabet == {"0", "1", "7", "-", ",", "*"}

\* every term over the alphabet up to the length bound
ShortTerms == UNION {[1..n -> TermAlphabet] : n \in 0..MaxTermLen}

\* a literal no int holds
Nines == [i \in 1..20 |-> "9"]

LongTerms ==
    {<<"1", "0", "-", "5", "0", "0">>,
     <<"4", "-", "1", "4">>,
     <<"2", "5", "-", "3", "0">>,
     <<"1", "4", "-", "6">>,
     <<"1", "9", "7", "0", "-", "2", "1", "0", "0">>,
     <<"2", "0", "2", "0", "-", "2", "0", "1", "9">>,
     <<"1", "9", "6", "9", "-", "2", "0", "2", "0">>,
     <<"1", ",", "4", "0", ",", "1", "0", "0">>,
     <<"2", "0", "1", "9", ",", "2", "0", "2", "0", ",", "2", "0", "2", "1">>,
     <<"6", ",", "7", ",", "8">>,
     <<"7", ",", "7", ",", "1">>,
     <<"2", "2", "2", "2", "2">>,
     <<"2", "0", "2", "0">>,
     <<"0", "0", "7">>,
     <<"+", "1", ",", "0">>,
     <<"1", ",", "-", "0">>,
     <<"1", ",", ",", "2">>,
     <<"1", ",", "x">>,
     <<"+">>,
     <<"+", "1">>,
     <<"1", "+", "1">>,
     <<"+", "7", ",", "+", "1">>,
     <<"1", "x">>} \cup
    {Nines, Nines \o <<"-", "5">>, <<"5", "-">> \o Nines, <<"1", ",">> \o Nines,
     <<"0", "0", "-">> \o Nines}

\* the single values at and next to the bounds of a field kind
BoundaryTerms(kind) ==
    {Itoa(Bounds[kind].min - 1), Itoa(Bounds[kind].min),
     Itoa(Bounds[kind].max), Itoa(Bounds[kind].max + 1)}

FieldTerms(kind) == ShortTerms \cup LongTerms \cup BoundaryTerms(kind)

RECURSIVE Join(_, _)
Join(terms, sep) ==
    IF Len(terms) = 0 THEN <<>>
    ELSE IF Len(terms) = 1 THEN terms[1]
    ELSE terms[1] \o sep \o Join(Tail(terms), sep)

\* every string of stars and spaces up to the length bound
ShapeExprs == UNION {[1..n -> {"*", " "}] : n \in 0..MaxExprLen}

\* five wildcards and one term, at each of the six places
OneTermExprs ==
    {Join([i \in 1..6 |-> IF i = p THEN t ELSE <<"*">>], <<" ">>) :
        p \in 1..6, t \in ShortTerms \cup LongTerms}

\* valid and invalid terms at several places at once
TermPools ==
    <<{<<"*">>,
       <<"0">>,
       <<"6", "0">>},
      {<<"*">>,
       <<"6", "-", "1", "4">>,
       <<"1", "4", "-", "6">>},
      {<<"*">>,
       <<"2", "4">>,
       <<"0">>},
      {<<"*">>,
       <<"6", ",", "7", ",", "8">>},
      {<<"*">>,
       <<"2">>,
       <<"7">>},
      {<<"*">>,
       <<"2", "0", "2", "0">>,
       <<"2", "0", "1", "9", ",", "2", "0", "2", "0", ",", "2", "0", "2", "1">>,
       <<"1", "9", "6", "9">>}>>

PoolExprs ==
    {Join(<<a, b, c, d, e, f>>, <<" ">>) :
        a \in TermPools[1], b \in TermPools[2], c \in TermPools[3],
        d \in TermPools[4], e \in TermPools[5], f \in TermPools[6]}

\* the expressions whose time frames are queried
AblePools ==
    <<{<<"*">>, <<"0">>, <<"6", "0">>},
      {<<"*">>, <<"6", "-", "1", "4">>},
      {<<"*">>, <<"2", "4">>},
      {<<"*">>, <<"6", ",", "7", ",", "8">>},
      {<<"*">>, <<"2">>},
      {<<"*">>, <<"2", "0", "1", "9", ",", "2", "0", "2", "0", ",", "2", "0", "2", "1">>,
       <<"2", "1", "0", "0">>}>>

AbleExprs ==
    {Join(<<a, b, c, d, e, f>>, <<" ">>) :
        a \in AblePools[1], b \in AblePools[2], c \in AblePools[3],
        d \in AblePools[4], e \in AblePools[5], f \in AblePools[6]}

OtherExprs ==
    {<<"1", "2", " ", "*", " ", "*", " ", "*", " ", "*", " ">>,
     <<"1", ",", "2", "3", " ", "*", " ", "*", " ", "*", " ", "*", " ">>,
     <<"*", "1", ",", "2", " ", "*", " ", "*", " ", "*", " ", "*", " ">>,
     <<"1", ",", ",", "2", " ", "*", " ", "*", " ", "*", " ", "*", " ", "*">>,
     <<"*", " ", "1", ",", "4", "0", ",", "1", "0", "0", " ", "*", " ", "*", " ", "*", " ", "*">>,
     <<"1", "0", "-", "5", "0", "0", " ", "*", " ", "*", " ", "*", " ", "*", " ", "*">>,
     <<"*", " ", "*", " ", "*", " ", "*", " ", "2", "2", "2", "2", "2", " ", "*">>,
     <<"*", " ", "*", " ", "2", "5", "-", "3", "0", " ", "1", "2", " ", "*", " ", "2", "0", "2", "0">>,
     <<"*", " ", "*", " ", "*", " ", "6", " ", "2", " ", "2", "0", "2", "0">>,
     <<"0", " ", "1", "2", " ", "*", " ", "1", " ", "*", " ", "*">>,
     <<"6", "0", " ", "2", "4", " ", "0", " ", "1", "3", " ", "7", " ", "1", "9", "6", "9">>,
     <<"*", " ", "*", " ", "*", " ", "*", " ", "*", " ", "2", "1", "0", "1">>,
     <<"5", " ", "5", " ", "5", " ", "5", " ", "5", " ", "1", "9", "7", "0", " ">>,
     <<" ", "5", " ", "5", " ", "5", " ", "5", " ", "5", " ", "1", "9", "7", "0">>,
     <<"5", " ", "5", " ", "5", " ", " ", "5", " ", "5", " ", "1", "9", "7", "0">>,
     <<"*", " ", "*", " ", "*", " ", "*", " ", "*", " ", "*", " ", "*">>,
     <<"*", " ", "*", " ", "*", " ", "*">>}

DaysIn(month) == IF month = 6 THEN 30 ELSE 31

\* times by their components, in the time's own location
Times ==
    {t \in [year : {1969, 1970, 2020, 2100, 2101}, month : {1, 6}, day : {1, 24, 31},
            hour : {0, 12}, minute : {0, 59}] : t.day <= DaysIn(t.month)}

OrderStarting(regex) == CHOOSE o \in Orders : o[1] = regex

\* one iteration order for each kind identifyTermKind can return for the
\* term: an order that starts with a matching regex returns that regex's
\* kind, and any order does when none matches
FirstOrders(term) ==
    LET matching == {r \in RegexNames : MatchString(r, term)}
    IN  IF matching = {} THEN {OrderStarting("spanRegex")}
        ELSE {OrderStarting(r) : r \in matching}

\* the iteration orders of the six newField calls of New(expression)
IterationOrders(expression) ==
    LET terms == Split(expression, " ")
    IN  IF Len(terms) # 6 THEN {[i \in 1..6 |-> OrderStarting("spanRegex")]}
        ELSE {<<a, b, c, d, e, f>> :
                a \in FirstOrders(terms[1]), b \in FirstOrders(terms[2]),
                c \in FirstOrders(terms[3]), d \in FirstOrders(terms[4]),
                e \in FirstOrders(terms[5]), f \in FirstOrders(terms[6])}

----------------------------------------------------------------------------
(* The calls.  New, newField and Able are pure: a behaviour is one          *)
(* construction, followed by a second one on the same input or by a query. *)

NoResult == [timeframe |-> ZeroTimeframe, err |-> nil]

NoField == [field |-> ZeroField, err |-> nil]

NoTime == [year |-> 0, month |-> 0, day |-> 0, hour |-> 0, minute |-> 0]

Init ==
    /\ pc = "start"
    /\ given = <<>>
    /\ timeframe = ZeroTimeframe
    /\ err = nil
    /\ again = NoResult
    /\ now = NoTime
    /\ able = FALSE
    /\ fKind = ""
    /\ fTerm = <<>>
    /\ fResult = NoField

CallNew(inputs) ==
    /\ pc = "start"
    /\ \E expression \in inputs :
        \E orders \in IterationOrders(expression) :
            LET r == New(expression, orders)
            IN  /\ given' = expression
                /\ timeframe' = r.timeframe
                /\ err' = r.err
    /\ pc' = "built"
    /\ UNCHANGED <<again, now, able, fKind, fTerm, fResult>>

CallNewAgain ==
    /\ pc = "built"
    /\ \E orders \in IterationOrders(given) : again' = New(given, orders)
    /\ pc' = "rebuilt"
    /\ UNCHANGED <<given, timeframe, err, now, able, fKind, fTerm, fResult>>

CallAble ==
    /\ pc = "built"
    /\ \E t \in Times :
        /\ now' = t
        /\ able' = Able(timeframe, t)
    /\ pc' = "asked"
    /\ UNCHANGED <<given, timeframe, err, again, fKind, fTerm, fResult>>

CallNewField ==
    /\ pc = "start"
    /\ \E i \in 1..Len(fieldTypes) :
        \E term \in FieldTerms(fieldTypes[i]) :
            \E order \in FirstOrders(term) :
                /\ fKind' = fieldTypes[i]
                /\ fTerm' = term
                /\ fResult' = newField(fieldTypes[i], term, Bounds[fieldTypes[i]].min,
                                       Bounds[fieldTypes[i]].max, order)
    /\ pc' = "field"
    /\ UNCHANGED <<given, timeframe, err, again, now, able>>

\* the package's use: New, then Able
Next == CallNew(AbleExprs) \/ CallAble

Spec == Init /\ [][Next]_vars

\* New on every input expression, twice
NextParse ==
    \/ CallNew(ShapeExprs)
    \/ CallNew(OneTermExprs)
    \/ CallNew(PoolExprs \cup OtherExprs)
    \/ CallNewAgain

SpecParse == Init /\ [][NextParse]_vars

\* newField on every term and field kind
NextField == CallNewField

SpecField == Init /\ [][NextField]_vars

----------------------------------------------------------------------------
(* The kinds of error, read off the messages *)

IsMalformed(e) ==
    e.formats \in {<<"could not parse cron expression: %s; misformatted expression">>,
                   <<"could not parse cron expression: %s; must have 6 terms">>}

IsUnrecognized(e) == e.formats = <<"could not parse field: %s; expression: %s">>

IsParseError(e) == Len(e.formats) = 3 /\ e.formats[2] = "could not parse value %s: %v"

IsRangeOrder(e) ==
    e.formats = <<"could not parse %s: %w", "first value(%d) cannot be greater/equal to second(%d)">>

IsBounds(e) ==
    e.formats \in {<<"could not parse %s: %w", "value(%d) cannot be less than min(%d)">>,
                   <<"could not parse %s: %w", "value(%d) cannot be more than max(%d)">>}

\* a < b as numbers, for two digit strings of any length
DigitsLess(a, b) ==
    LET x == StripZeros(a)
        y == StripZeros(b)
    IN  Len(x) < Len(y) \/ (Len(x) = Len(y) /\ DigitsGreater(y, x))

\* the number a digit string denotes lies in [min, max]
DigitsWithin(d, min, max) == ~DigitsLess(d, Itoa(min)) /\ ~DigitsLess(Itoa(max), d)

FitsInt(d) == ~OutOfRange(d, FALSE)

Built == pc \in {"built", "rebuilt", "asked"}

AllWildcards == <<"*", " ", "*", " ", "*", " ", "*", " ", "*", " ", "*">>

----------------------------------------------------------------------------
(* Claims *)

AllSixMembers ==
    /\ now.minute \in timeframe.ParsedExpression.Minutes.Values
    /\ now.hour \in timeframe.ParsedExpression.Hours.Values
    /\ now.day \in timeframe.ParsedExpression.Days.Values
    /\ now.month \in timeframe.ParsedExpression.Months.Values
    /\ Weekday(now) \in timeframe.ParsedExpression.Weekdays.Values
    /\ now.year \in timeframe.ParsedExpression.Years.Values

\* C1: for a Timeframe a successful New returned, Able(t) is true if and
\* only if each of the six components of t (minute, hour, day, month,
\* weekday, year) is in the Values of its field.
C1_AbleIffAllMembers == (pc = "asked" /\ err = nil) => (able <=> AllSixMembers)

\* C1 witness: Able answered false for a time of which only the year is
\* outside its field's Values.
C1_Witness ==
    /\ pc = "asked" /\ err = nil /\ ~able
    /\ now.minute \in timeframe.ParsedExpression.Minutes.Values
    /\ now.hour \in timeframe.ParsedExpression.Hours.Values
    /\ now.day \in timeframe.ParsedExpression.Days.Values
    /\ now.month \in timeframe.ParsedExpression.Months.Values
    /\ Weekday(now) \in timeframe.ParsedExpression.Weekdays.Values
    /\ now.year \notin timeframe.ParsedExpression.Years.Values
    /\ timeframe.ParsedExpression.Years.Values # 1970..2100

\* C2 as stated: for "* * * * * *" New succeeds and Able is true for every
\* time, years before 1970 and after 2100 included.
C2_Original == (pc = "asked" /\ given = AllWildcards) => (err = nil /\ able)

\* C2 as amended: for "* * * * * *" New succeeds and Able is true exactly
\* for the times whose year is within 1970..2100.
C2_WildcardWithinYears ==
    (pc = "asked" /\ given = AllWildcards) => (err = nil /\ (able <=> now.year \in 1970..2100))

\* C2 witness: the all-wildcard time frame was asked about a time in the
\* last year it holds, and answered true.
C2_Witness == pc = "asked" /\ given = AllWildcards /\ now.year = 2100 /\ able

\* the terms strings.Split makes of the expression given to New
GivenTerms == Split(given, " ")

SixTerms == Len(GivenTerms) = 6 /\ \A i \in 1..6 : GivenTerms[i] # <<>>

\* C3: New fails with the malformed-expression error for every string that
\* is not six non-empty terms separated by one space each.
C3_Claim == (Built /\ ~SixTerms) => (IsMalformed(err) /\ timeframe = ZeroTimeframe)

FieldMin == Bounds[fKind].min

FieldMax == Bounds[fKind].max

\* C4 as stated: for each field kind the value terms min and max build a
\* field, and the value terms min-1 and max+1 are rejected with a bounds
\* error.
C4_Original ==
    pc = "field" =>
        /\ fTerm \in {Itoa(FieldMin), Itoa(FieldMax)} => fResult.err = nil
        /\ fTerm \in {Itoa(FieldMin - 1), Itoa(FieldMax + 1)} => IsBounds(fResult.err)

\* C4 as amended: min and max build a field holding that one value; max+1
\* is rejected with a bounds error; min-1 is rejected with a bounds error
\* for the kinds whose min is at least 1 (day, month, year), and for the
\* kinds whose min is 0 (minute, hour, weekday) the term "-1" is no value
\* term and is rejected as an unrecognized term.
C4_Boundaries ==
    pc = "field" =>
        /\ fTerm = Itoa(FieldMin) =>
                fResult.err = nil /\ fResult.field.Values = {FieldMin}
        /\ fTerm = Itoa(FieldMax) =>
                fResult.err = nil /\ fResult.field.Values = {FieldMax}
        /\ fTerm = Itoa(FieldMax + 1) => IsBounds(fResult.err)
        /\ fTerm = Itoa(FieldMin - 1) =>
                IF FieldMin >= 1 THEN IsBounds(fResult.err) ELSE IsUnrecognized(fResult.err)

\* C4 witness: the value one above the maximum of the year field was
\* rejected with a bounds error.
C4_Witness ==
    pc = "field" /\ fKind = "year" /\ fTerm = Itoa(FieldMax + 1) /\ IsBounds(fResult.err)

\* C5: every error of a failing field names the field kind and carries the
\* raw term text.
C5_Claim ==
    (pc = "field" /\ fResult.err # nil) =>
        /\ fResult.err.kind = fKind
        /\ \E i \in 1..Len(fResult.err.args) : fResult.err.args[i] = fTerm

SpanA == Split(fTerm, "-")[1]

SpanB == Split(fTerm, "-")[2]

SpanOk ==
    /\ DigitsLess(SpanA, SpanB)
    /\ ~DigitsLess(SpanA, Itoa(FieldMin))
    /\ ~DigitsLess(Itoa(FieldMax), SpanB)

\* C6 as stated: a span term a-b builds a field if and only if
\* min <= a < b <= max, its Values are then a..b, and when a >= b the error
\* is a range-order error, also when a or b is outside the bounds.
C6_Original ==
    (pc = "field" /\ spanRegex(fTerm)) =>
        /\ fResult.err = nil <=> SpanOk
        /\ fResult.err = nil => fResult.field.Values = DigitsToInt(SpanA)..DigitsToInt(SpanB)
        /\ ~DigitsLess(SpanA, SpanB) => IsRangeOrder(fResult.err)

\* C6 as amended: a span term a-b builds a field if and only if
\* min <= a < b <= max, its Values are then a..b; when a or b does not fit
\* an int the error is a parse error; otherwise when a >= b the error is a
\* range-order error, also when a or b is outside the bounds.
C6_Span ==
    (pc = "field" /\ spanRegex(fTerm)) =>
        /\ fResult.err = nil <=> SpanOk
        /\ fResult.err = nil => fResult.field.Values = DigitsToInt(SpanA)..DigitsToInt(SpanB)
        /\ (~FitsInt(SpanA) \/ ~FitsInt(SpanB)) => IsParseError(fResult.err)
        /\ (FitsInt(SpanA) /\ FitsInt(SpanB) /\ ~DigitsLess(SpanA, SpanB)) =>
                IsRangeOrder(fResult.err)

\* C6 witness: a span whose first value is not below its second, and is
\* above the maximum of the field as well, was rejected with a range-order
\* error.
C6_Witness ==
    /\ pc = "field" /\ spanRegex(fTerm) /\ IsRangeOrder(fResult.err)
    /\ FitsInt(SpanA) /\ DigitsLess(Itoa(FieldMax), SpanA)

ListItems == Split(fTerm, ",")

ItemGood(i) == IsDigits(ListItems[i]) /\ DigitsWithin(ListItems[i], FieldMin, FieldMax)

\* C7: a term with a comma builds a field if and only if every item is a
\* non-empty digit string with a value within the bounds, its Values are
\* then the item values, and otherwise the leftmost offending item decides
\* the error: a parse error if it is no digit string, a bounds error if it
\* is one.
C7_Claim ==
    (pc = "field" /\ listRegex(fTerm)) =>
        LET bad == {i \in 1..Len(ListItems) : ~ItemGood(i)}
        IN  /\ fResult.err = nil <=> bad = {}
            /\ fResult.err = nil =>
                    fResult.field.Values = {Atoi(ListItems[i]).val : i \in 1..Len(ListItems)}
            /\ bad # {} =>
                    IF IsDigits(ListItems[MinOf(bad)]) THEN IsBounds(fResult.err)
                    ELSE IsParseError(fResult.err)

\* the errors the i-th term of the given expression has as a field of its kind
TermErrs(i) ==
    {newField(fieldTypes[i], GivenTerms[i], Bounds[fieldTypes[i]].min,
              Bounds[fieldTypes[i]].max, o).err : o \in FirstOrders(GivenTerms[i])}

BadTerms == {i \in 1..6 : nil \notin TermErrs(i)}

PassedShape == Built /\ cronExpressionRegex(given) /\ Len(GivenTerms) = 6

\* C8: when the expression passes the whole-expression check and some term
\* is invalid, New returns the error of the earliest invalid term and the
\* empty Timeframe.
C8_FirstErrorAtomic ==
    (PassedShape /\ BadTerms # {}) =>
        /\ err \in TermErrs(MinOf(BadTerms))
        /\ timeframe = ZeroTimeframe

\* C8 witness: New failed on an expression with two or more invalid terms,
\* the earliest of them after a valid first term.
C8_Witness ==
    /\ PassedShape /\ Cardinality(BadTerms) >= 2 /\ MinOf(BadTerms) >= 2
    /\ GivenTerms[1] # <<"*">>
    /\ err.kind = fieldTypes[MinOf(BadTerms)]

\* C9: a second New on the same string returns what the first returned,
\* whatever the iteration orders of identifyTermKind, and at most one of
\* the four term patterns matches any term.
C9_Deterministic ==
    /\ pc = "rebuilt" => (again.err = err /\ again.timeframe = timeframe)
    /\ Built => \A i \in 1..Len(GivenTerms) :
                    Cardinality({r \in RegexNames : MatchString(r, GivenTerms[i])}) <= 1

\* C9 witness: New succeeded twice on an expression with a span term and a
\* list term.
C9_Witness ==
    /\ pc = "rebuilt" /\ err = nil /\ again.err = nil
    /\ \E i, j \in 1..Len(GivenTerms) : spanRegex(GivenTerms[i]) /\ listRegex(GivenTerms[j])

\* C10: every term New hands to newField is classified wildcard, span, list
\* or value, a list term among them has no empty item, and so New returns
\* neither the unrecognized-term error nor a parse error for an empty item.
C10_Claim ==
    PassedShape =>
        /\ \A i \in 1..6 : "unknown" \notin IdentifyOutcomes(GivenTerms[i])
        /\ \A i \in 1..6 : listRegex(GivenTerms[i]) =>
                \A k \in 1..Len(Split(GivenTerms[i], ",")) : Split(GivenTerms[i], ",")[k] # <<>>
        /\ ~IsUnrecognized(err)

=============================================================================
